---- MODULE Spec2Model ----
(***************************************************************************)
(* Model of the snapshot pool manager of vHive                             *)
(* (snapshotting/manager.go): three collections of snapshots guarded by    *)
(* one mutex, and the four operations InitSnapshot, CommitSnapshot,        *)
(* AcquireSnapshot and ReleaseSnapshot called by concurrent goroutines.    *)
(***************************************************************************)
EXTENDS Integers, Sequences, FiniteSets, TLC

\* ---------------------------------------------------------------- bounds
\* Number of snapshot objects InitSnapshot may allocate in one run.
MaxSnapshots == 2

\* Concurrent callers, and the arguments they draw from.
Threads == {1, 2}
VMIDs == {"vm1", "vm2"}
Images == {"imgA", "imgB"}

\* ------------------------------------------------------------- constants
Nil == 0
NoLock == 0
baseFolder == "base"

VARIABLES
  heap,               \* the Snapshot objects allocated so far; a *Snapshot is an index
  snapDirs,           \* per object: outcome of its CreateSnapDir ("none", "ok", "failed")
  provCalls,          \* per object: number of CreateSnapDir invocations
  activeSnapshots,    \* map vmID -> *Snapshot
  creatingSnapshots,  \* map vmID -> *Snapshot
  idleSnapshots,      \* map image -> []*Snapshot
  lock,               \* sync.Mutex: NoLock or the thread holding it
  pc,                 \* per thread: "idle", "crit" (holds the mutex), "prov"
  local,              \* per thread: InitSnapshot's local variable snap
  ret,                \* the most recent return: caller, operation, error, snapshot
  entered,            \* history: per image, the idle snapshots in order of entry
  checkedOut          \* history: objects handed out by AcquireSnapshot and not released since

vars == <<heap, snapDirs, provCalls, activeSnapshots, creatingSnapshots,
          idleSnapshots, lock, pc, local, ret, entered, checkedOut>>

mgrVars == <<activeSnapshots, creatingSnapshots, idleSnapshots>>
heapVars == <<heap, snapDirs, provCalls>>

Objects == 1..Len(heap)

\* ------------------------------------------------------------ Go helpers
EmptyMap == [k \in {} |-> Nil]

\* v, ok := m[k]
MapGet(m, k) ==
  IF k \in DOMAIN m THEN [val |-> m[k], ok |-> TRUE] ELSE [val |-> Nil, ok |-> FALSE]

\* m[k] = v
MapPut(m, k, v) == [x \in (DOMAIN m) \cup {k} |-> IF x = k THEN v ELSE m[x]]

\* delete(m, k)
MapDelete_All(m, k) == IF k \in DOMAIN m THEN [x \in {} |-> m[x]] ELSE m
MapDelete(m, k) == [x \in (DOMAIN m) \ {k} |-> m[x]]

\* m[k] of a map of slices: the nil slice when k is absent
MapGetSlice(m, k) == IF k \in DOMAIN m THEN m[k] ELSE <<>>

\* idles[0]
SliceHead_Last(idles) == idles[Len(idles)]
SliceHead(idles) == idles[1]

\* idles[1:]
SliceRest_Keep(idles) == idles
SliceRest(idles) == Tail(idles)

\* append(idles, snap)
SliceAppend_Front(idles, snap) == <<snap>> \o idles
SliceAppend(idles, snap) == Append(idles, snap)

\* ------------------------------------------------------- Snapshot entity
NewSnapshot(vmID, base, image) ==
  [id |-> vmID, image |-> image, path |-> <<base, image, vmID>>]

GetId(snp) == heap[snp].id

\* The outcomes the filesystem can give to CreateSnapDir.
CreateSnapDirOutcomes == {"ok", "failed"}

\* ---------------------------------------------------------- return values
\* (snapshot, error) as the caller gets them; CommitSnapshot and
\* ReleaseSnapshot return the error alone.
Ok(snp) == [err |-> "nil", snap |-> snp]
Fail(kind) == [err |-> kind, snap |-> Nil]

NoReturn == [thread |-> 0, op |-> "none", err |-> "nil", snap |-> Nil]

\* history helper: drop one object from an entry-order sequence
RECURSIVE SeqWithout(_, _)
SeqWithout(s, x) ==
  IF s = <<>> THEN <<>>
  ELSE IF Head(s) = x THEN Tail(s)
  ELSE <<Head(s)>> \o SeqWithout(Tail(s), x)

\* ----------------------------------------------------------------- Init
Init ==
  /\ heap = <<>>
  /\ snapDirs = <<>>
  /\ provCalls = <<>>
  /\ activeSnapshots = EmptyMap
  /\ creatingSnapshots = EmptyMap
  /\ idleSnapshots = EmptyMap
  /\ lock = NoLock
  /\ pc = [t \in Threads |-> "idle"]
  /\ local = [t \in Threads |-> Nil]
  /\ ret = NoReturn
  /\ entered = [i \in Images |-> <<>>]
  /\ checkedOut = {}

\* -------------------------------------------------------------- callers
\* Every operation starts with mgr.Lock(), which blocks until the mutex is
\* free: a caller still blocked there has read nothing and counts as not
\* started.  Which operation the holder is in, and its arguments, show in the
\* step that runs the locked part.
\* mgr.Lock()
Lock_NoWait(t) ==
  /\ pc[t] = "idle"
  /\ lock' = t
  /\ pc' = [pc EXCEPT ![t] = "crit"]
  /\ UNCHANGED <<heapVars, mgrVars, local, ret, entered, checkedOut>>
Lock(t) ==
  /\ pc[t] = "idle"
  /\ lock = NoLock
  /\ lock' = t
  /\ pc' = [pc EXCEPT ![t] = "crit"]
  /\ UNCHANGED <<heapVars, mgrVars, local, ret, entered, checkedOut>>

\* t holds the mutex
InCrit(t) == pc[t] = "crit" /\ lock = t

\* mgr.Unlock()
Unlock_Forget(t) == UNCHANGED lock
Unlock(t) == lock' = NoLock

\* t's operation op returns r to its caller
Return(t, op, r) ==
  /\ ret' = [thread |-> t, op |-> op, err |-> r.err, snap |-> r.snap]
  /\ pc' = [pc EXCEPT ![t] = "idle"]

\* ------------------------------------------------------ AcquireSnapshot
\* idles, ok := mgr.idleSnapshots[image]
IdleLookup(image) == MapGet(idleSnapshots, image)

\* mgr.idleSnapshots[image] = []*Snapshot{} on a first miss
LazyPool_Skip(image) == idleSnapshots
LazyPool(image) == MapPut(idleSnapshots, image, <<>>)

\* mgr.idleSnapshots[image] = idles[1:]
StoreRest_DropEmpty(image, idles) ==
  IF SliceRest(idles) = <<>>
  THEN MapDelete(idleSnapshots, image)
  ELSE MapPut(idleSnapshots, image, SliceRest(idles))
StoreRest(image, idles) == MapPut(idleSnapshots, image, SliceRest(idles))

AcquireSnapshot(t, image) ==
  /\ InCrit(t)
  /\ LET idles == IdleLookup(image).val IN
     IF ~IdleLookup(image).ok
     THEN /\ idleSnapshots' = LazyPool(image)
          /\ Return(t, "AcquireSnapshot", Fail("NoSnapshotAvailable"))
          /\ UNCHANGED <<activeSnapshots, entered, checkedOut>>
     ELSE IF Len(idles) # 0
          THEN LET snp == SliceHead(idles) IN
               /\ idleSnapshots' = StoreRest(image, idles)
               /\ activeSnapshots' = MapPut(activeSnapshots, GetId(snp), snp)
               /\ entered' = [entered EXCEPT ![image] = SeqWithout(@, snp)]
               /\ checkedOut' = checkedOut \cup {snp}
               /\ Return(t, "AcquireSnapshot", Ok(snp))
          ELSE /\ Return(t, "AcquireSnapshot", Fail("NoSnapshotAvailable"))
               /\ UNCHANGED <<activeSnapshots, idleSnapshots, entered, checkedOut>>
  /\ Unlock(t)
  /\ UNCHANGED <<heapVars, creatingSnapshots, local>>

\* ------------------------------------------------------ ReleaseSnapshot
\* snap, present := mgr.activeSnapshots[vmID]
ActiveLookup_Creating(vmID) == MapGet(creatingSnapshots, vmID)
ActiveLookup(vmID) == MapGet(activeSnapshots, vmID)

\* the pool a released or committed snapshot goes to: snap.Image
PoolKey_Id(snap) == heap[snap].id
PoolKey(snap) == heap[snap].image

ReleaseSnapshot(t, vmID) ==
  /\ InCrit(t)
  /\ IF ~ActiveLookup(vmID).ok
     THEN /\ Return(t, "ReleaseSnapshot", Fail("NotFound"))
          /\ UNCHANGED <<activeSnapshots, idleSnapshots, entered, checkedOut>>
     ELSE LET snap == ActiveLookup(vmID).val
              img == PoolKey(snap) IN
          /\ activeSnapshots' = MapDelete(activeSnapshots, vmID)
          /\ idleSnapshots' = MapPut(idleSnapshots, img,
                                     SliceAppend(MapGetSlice(idleSnapshots, img), snap))
          /\ entered' = [entered EXCEPT ![heap[snap].image] = Append(@, snap)]
          /\ checkedOut' = checkedOut \ {snap}
          /\ Return(t, "ReleaseSnapshot", Ok(Nil))
  /\ Unlock(t)
  /\ UNCHANGED <<heapVars, creatingSnapshots, local>>

\* --------------------------------------------------------- InitSnapshot
\* _, present := mgr.creatingSnapshots[vmID]
AlreadyCreating_Never(vmID) == FALSE
AlreadyCreating_Active(vmID) == MapGet(activeSnapshots, vmID).ok
AlreadyCreating(vmID) == MapGet(creatingSnapshots, vmID).ok

\* the mgr.Unlock() that precedes the directory provisioning
UnlockBeforeProvision_Held(t) == UNCHANGED lock
UnlockBeforeProvision(t) == Unlock(t)

\* From the presence check to mgr.Unlock() (both exits of the locked part).
InitSnapshot(t, vmID, image) ==
  /\ InCrit(t)
  /\ IF AlreadyCreating(vmID)
     THEN /\ Unlock(t)
          /\ Return(t, "InitSnapshot", Fail("DuplicateCreation"))
          /\ UNCHANGED <<heapVars, creatingSnapshots, local>>
     ELSE LET snap == Len(heap) + 1 IN
          /\ Len(heap) < MaxSnapshots
          /\ heap' = Append(heap, NewSnapshot(vmID, baseFolder, image))
          /\ snapDirs' = Append(snapDirs, "none")
          /\ provCalls' = Append(provCalls, 0)
          /\ creatingSnapshots' = MapPut(creatingSnapshots, heap'[snap].id, snap)
          /\ local' = [local EXCEPT ![t] = snap]
          /\ UnlockBeforeProvision(t)
          /\ pc' = [pc EXCEPT ![t] = "prov"]
          /\ UNCHANGED ret
  /\ UNCHANGED <<activeSnapshots, idleSnapshots, entered, checkedOut>>

\* snap.CreateSnapDir() and the return that follows it, outside the lock.
CreateSnapDir_Twice(t) ==
  /\ pc[t] = "prov"
  /\ LET snap == local[t] IN
     \E first, outcome \in CreateSnapDirOutcomes :
       /\ snapDirs' = [snapDirs EXCEPT ![snap] = outcome]
       /\ provCalls' = [provCalls EXCEPT ![snap] = @ + (IF first = "ok" THEN 1 ELSE 2)]
       /\ Return(t, "InitSnapshot",
                 IF outcome = "ok" THEN Ok(snap) ELSE Fail("ProvisioningFailed"))
  /\ local' = [local EXCEPT ![t] = Nil]
  /\ UNCHANGED <<heap, mgrVars, lock, entered, checkedOut>>
CreateSnapDir(t) ==
  /\ pc[t] = "prov"
  /\ LET snap == local[t] IN
     \E outcome \in CreateSnapDirOutcomes :
       /\ snapDirs' = [snapDirs EXCEPT ![snap] = outcome]
       /\ provCalls' = [provCalls EXCEPT ![snap] = @ + 1]
       /\ Return(t, "InitSnapshot",
                 IF outcome = "ok" THEN Ok(snap) ELSE Fail("ProvisioningFailed"))
  /\ local' = [local EXCEPT ![t] = Nil]
  /\ UNCHANGED <<heap, mgrVars, lock, entered, checkedOut>>

\* ------------------------------------------------------- CommitSnapshot
\* snap, ok := mgr.creatingSnapshots[vmID]
CreatingLookup_Ready(vmID) ==
  IF vmID \in DOMAIN creatingSnapshots /\ snapDirs[creatingSnapshots[vmID]] = "ok"
  THEN MapGet(creatingSnapshots, vmID)
  ELSE [val |-> Nil, ok |-> FALSE]
CreatingLookup(vmID) == MapGet(creatingSnapshots, vmID)

CommitSnapshot(t, vmID) ==
  /\ InCrit(t)
  /\ IF ~CreatingLookup(vmID).ok
     THEN /\ Return(t, "CommitSnapshot", Fail("NotFound"))
          /\ UNCHANGED <<creatingSnapshots, idleSnapshots, entered>>
     ELSE LET snap == CreatingLookup(vmID).val
              img == PoolKey(snap)
              withPool == IF ~MapGet(idleSnapshots, img).ok
                          THEN MapPut(idleSnapshots, img, <<>>)
                          ELSE idleSnapshots IN
          /\ creatingSnapshots' = MapDelete(creatingSnapshots, vmID)
          /\ idleSnapshots' = MapPut(withPool, img, SliceAppend(withPool[img], snap))
          /\ entered' = [entered EXCEPT ![heap[snap].image] = Append(@, snap)]
          /\ Return(t, "CommitSnapshot", Ok(Nil))
  /\ Unlock(t)
  /\ UNCHANGED <<heapVars, activeSnapshots, local, checkedOut>>

\* ----------------------------------------------------------------- Next
Next ==
  \E t \in Threads :
    \/ Lock(t)
    \/ \E image \in Images : AcquireSnapshot(t, image)
    \/ \E vmID \in VMIDs : ReleaseSnapshot(t, vmID)
    \/ \E vmID \in VMIDs, image \in Images : InitSnapshot(t, vmID, image)
    \/ CreateSnapDir(t)
    \/ \E vmID \in VMIDs : CommitSnapshot(t, vmID)

Spec == Init /\ [][Next]_vars

\* ------------------------------------------------- vocabulary of claims
Range(m) == {m[k] : k \in DOMAIN m}

IdlePositions(s) ==
  UNION {{<<i, k>> : k \in {j \in DOMAIN idleSnapshots[i] : idleSnapshots[i][j] = s}} :
           i \in DOMAIN idleSnapshots}

\* In how many places of the three collections object s is held.
Holders(s) ==
  Cardinality({v \in DOMAIN creatingSnapshots : creatingSnapshots[v] = s})
  + Cardinality({v \in DOMAIN activeSnapshots : activeSnapshots[v] = s})
  + Cardinality(IdlePositions(s))

IsIdle(s) == IdlePositions(s) # {}

\* Thread t runs the locked part of op in this step.
Step(t, op) ==
  /\ pc[t] = "crit"
  /\ IF pc'[t] = "prov" THEN op = "InitSnapshot"
     ELSE pc'[t] = "idle" /\ ret'.thread = t /\ ret'.op = op

\* The holder of the mutex runs the locked part of op in this step.
HolderStep(op) == lock # NoLock /\ Step(lock, op)

\* The most recent return is that of a call of op.
Returned(op) == ret.thread \in Threads /\ ret.op = op

\* C1: every snapshot InitSnapshot has registered is held in exactly one place
\* of creatingSnapshots, activeSnapshots and the idleSnapshots sequences.
C1_ExactlyOneCollection == \A s \in Objects : Holders(s) = 1

\* C2: AcquireSnapshot never returns a snapshot that is in activeSnapshots or
\* creatingSnapshots, nor one an earlier AcquireSnapshot handed out that no
\* ReleaseSnapshot has moved back to idle since.
C2_ExclusiveOwnership ==
  [][(HolderStep("AcquireSnapshot") /\ ret'.snap # Nil) =>
         /\ ret'.snap \notin checkedOut
         /\ ret'.snap \notin Range(activeSnapshots)
         /\ ret'.snap \notin Range(creatingSnapshots)
         /\ IsIdle(ret'.snap)]_vars

\* a snapshot was handed out while another one is handed out and not released
C2_Witness ==
  /\ Returned("AcquireSnapshot") /\ ret.snap # Nil
  /\ ret.snap \in checkedOut \cap Range(activeSnapshots)
  /\ \E s \in checkedOut \cap Range(activeSnapshots) : s # ret.snap

\* C3: a VM id is never a key of both creatingSnapshots and activeSnapshots.
C3_CreatingActiveDisjoint ==
  (DOMAIN creatingSnapshots) \cap (DOMAIN activeSnapshots) = {}

\* C4: InitSnapshot(v, i) with v already a key of creatingSnapshots returns
\* DuplicateCreation and no snapshot, starts no provisioning, and leaves the
\* three collections and every snapshot unchanged.
C4_DuplicateCreation ==
  [][HolderStep("InitSnapshot") =>
       \A v \in DOMAIN creatingSnapshots, i \in Images :
         InitSnapshot(lock, v, i) =>
           /\ ret'.err = "DuplicateCreation" /\ ret'.snap = Nil
           /\ pc'[lock] = "idle"
           /\ UNCHANGED <<mgrVars, heapVars>>]_vars

C4_Witness ==
  /\ Returned("InitSnapshot") /\ ret.err = "DuplicateCreation"
  /\ creatingSnapshots # EmptyMap

\* C5: every snapshot in idleSnapshots[image] has that image, so a successful
\* AcquireSnapshot(i) returns a snapshot of image i; and a successful
\* CommitSnapshot leaves its snapshot's pool non-empty, which only an
\* AcquireSnapshot on that image shrinks, and AcquireSnapshot on a non-empty
\* pool succeeds.
C5_IdleImage ==
  /\ [](\A i \in DOMAIN idleSnapshots : \A k \in 1..Len(idleSnapshots[i]) :
          heap[idleSnapshots[i][k]].image = i)
  /\ [][/\ HolderStep("AcquireSnapshot") =>
             \A i \in Images :
               AcquireSnapshot(lock, i) =>
                 /\ ret'.snap # Nil => heap[ret'.snap].image = i
                 /\ MapGetSlice(idleSnapshots, i) # <<>> => ret'.snap # Nil
        /\ (HolderStep("CommitSnapshot") /\ ret'.err = "nil") =>
             \A v \in DOMAIN creatingSnapshots :
               CommitSnapshot(lock, v) =>
                 LET img == heap[creatingSnapshots[v]].image IN
                   /\ img \in DOMAIN idleSnapshots'
                   /\ idleSnapshots'[img] # <<>>
        /\ \A i \in DOMAIN idleSnapshots :
             (idleSnapshots[i] # <<>>
                /\ ~(HolderStep("AcquireSnapshot") /\ AcquireSnapshot(lock, i)))
             => MapGetSlice(idleSnapshots', i) # <<>>]_vars

\* a committed snapshot was handed out by AcquireSnapshot while the pool of
\* the other image holds a snapshot too
C5_Witness ==
  /\ Returned("AcquireSnapshot") /\ ret.snap # Nil
  /\ ret.snap \in Range(activeSnapshots)
  /\ \E i \in DOMAIN idleSnapshots :
       /\ idleSnapshots[i] # <<>>
       /\ heap[ret.snap].image # i

\* C6: each idle pool is ordered by the time its snapshots entered it, and a
\* successful AcquireSnapshot returns the one that entered first.
C6_Fifo ==
  /\ [](\A i \in DOMAIN idleSnapshots : idleSnapshots[i] = entered[i])
  /\ [](\A i \in Images : i \notin DOMAIN idleSnapshots => entered[i] = <<>>)
  /\ [][(HolderStep("AcquireSnapshot") /\ ret'.snap # Nil) =>
          \A i \in Images :
            AcquireSnapshot(lock, i) =>
              /\ ret'.snap = Head(entered[i])
              /\ idleSnapshots'[i] = Tail(entered[i])]_vars

\* a snapshot was handed out from the head of a pool in which another
\* snapshot of the same image waits
C6_Witness ==
  /\ Returned("AcquireSnapshot") /\ ret.snap # Nil
  /\ ret.snap \in checkedOut
  /\ entered[heap[ret.snap].image] # <<>>

\* C7: AcquireSnapshot(i) on an absent or empty pool returns
\* NoSnapshotAvailable and no snapshot; it changes nothing but adding the key
\* i with an empty sequence when the key was absent; and an absent or empty
\* pool becomes non-empty only by a CommitSnapshot or ReleaseSnapshot that
\* appends a snapshot of image i.
C7_NoSnapshotAvailable ==
  [][/\ HolderStep("AcquireSnapshot") =>
          \A i \in Images :
          (MapGetSlice(idleSnapshots, i) = <<>> /\ AcquireSnapshot(lock, i)) =>
            /\ ret'.err = "NoSnapshotAvailable" /\ ret'.snap = Nil
            /\ UNCHANGED <<creatingSnapshots, activeSnapshots, heapVars>>
            /\ idleSnapshots' = MapPut(idleSnapshots, i, <<>>)
            /\ i \in DOMAIN idleSnapshots => idleSnapshots' = idleSnapshots
     /\ \A i \in Images :
          (MapGetSlice(idleSnapshots, i) = <<>> /\ MapGetSlice(idleSnapshots', i) # <<>>) =>
            /\ HolderStep("CommitSnapshot") \/ HolderStep("ReleaseSnapshot")
            /\ Len(idleSnapshots'[i]) = 1
            /\ heap[idleSnapshots'[i][1]].image = i]_vars

\* AcquireSnapshot missed; no snapshot was ever idle, yet every image has its
\* (empty) pool, so both an absent and a present empty pool were missed
C7_Witness ==
  /\ Returned("AcquireSnapshot") /\ ret.err = "NoSnapshotAvailable"
  /\ DOMAIN idleSnapshots = Images
  /\ \A i \in Images : idleSnapshots[i] = <<>>
  /\ creatingSnapshots # EmptyMap
  /\ activeSnapshots = EmptyMap /\ checkedOut = {}

\* C8: CommitSnapshot(v) with v not a key of creatingSnapshots and
\* ReleaseSnapshot(v) with v not a key of activeSnapshots return NotFound and
\* leave the three collections unchanged, wherever else id v is held.
C8_NotFound ==
  [][/\ HolderStep("CommitSnapshot") =>
          \A v \in VMIDs \ DOMAIN creatingSnapshots :
            CommitSnapshot(lock, v) =>
              /\ ret'.err = "NotFound" /\ ret'.snap = Nil
              /\ UNCHANGED <<mgrVars, heapVars>>
     /\ HolderStep("ReleaseSnapshot") =>
          \A v \in VMIDs \ DOMAIN activeSnapshots :
            ReleaseSnapshot(lock, v) =>
              /\ ret'.err = "NotFound" /\ ret'.snap = Nil
              /\ UNCHANGED <<mgrVars, heapVars>>]_vars

\* CommitSnapshot failed although every VM id has a snapshot, all of them
\* active
C8_Witness ==
  /\ Returned("CommitSnapshot") /\ ret.err = "NotFound"
  /\ DOMAIN activeSnapshots = VMIDs
  /\ creatingSnapshots = EmptyMap

\* C9: an InitSnapshot call for a VM id that is not being created registers
\* its snapshot whatever the other callers are doing, returns that snapshot
\* when its provisioning succeeds, and never holds the lock while it
\* provisions, so another caller can take the lock meanwhile.
C9_IndependentInit ==
  /\ [](\A t \in Threads : pc[t] = "prov" =>
          /\ lock # t
          /\ local[t] \in Objects
          /\ (lock = NoLock => \A u \in Threads : pc[u] = "idle" => ENABLED Lock(u)))
  /\ [][/\ HolderStep("InitSnapshot") =>
             \A v \in VMIDs \ DOMAIN creatingSnapshots, i \in Images :
               InitSnapshot(lock, v, i) =>
                 /\ pc'[lock] = "prov"
                 /\ v \in DOMAIN creatingSnapshots'
                 /\ creatingSnapshots'[v] = local'[lock]
                 /\ local'[lock] \notin Objects
                 /\ heap'[local'[lock]].id = v /\ heap'[local'[lock]].image = i
                 /\ \A w \in DOMAIN creatingSnapshots :
                      w \in DOMAIN creatingSnapshots'
                      /\ creatingSnapshots'[w] = creatingSnapshots[w]
        /\ \A t \in Threads :
             (pc[t] = "prov" /\ pc'[t] # "prov" /\ snapDirs'[local[t]] = "ok") =>
               /\ ret'.thread = t /\ ret'.op = "InitSnapshot"
               /\ ret'.err = "nil" /\ ret'.snap = local[t]]_vars

\* the second caller registered and returned its snapshot while the first
\* caller, of another VM id, is still provisioning
C9_Witness ==
  \E t \in Threads :
    /\ pc[t] = "prov"
    /\ Returned("InitSnapshot") /\ ret.thread # t /\ ret.snap # Nil
    /\ ret.snap > local[t]
    /\ heap[ret.snap].id # heap[local[t]].id
    /\ creatingSnapshots[heap[local[t]].id] = local[t]
    /\ creatingSnapshots[heap[ret.snap].id] = ret.snap

\* C10: an entry of creatingSnapshots is never overwritten, and an
\* InitSnapshot(v, _) that runs its presence check while the call that
\* registered v's entry is still provisioning returns DuplicateCreation and
\* registers nothing.
C10_SameVmInit ==
  [][/\ \A v \in (DOMAIN creatingSnapshots) \cap (DOMAIN creatingSnapshots') :
          creatingSnapshots'[v] = creatingSnapshots[v]
     /\ HolderStep("InitSnapshot") =>
          \A u \in Threads \ {lock} :
            (/\ pc[u] = "prov"
             /\ heap[local[u]].id \in DOMAIN creatingSnapshots
             /\ creatingSnapshots[heap[local[u]].id] = local[u]) =>
              \A i \in Images :
                InitSnapshot(lock, heap[local[u]].id, i) =>
                  /\ ret'.err = "DuplicateCreation"
                  /\ heap' = heap
                  /\ creatingSnapshots' = creatingSnapshots]_vars

\* the second call for the same VM id failed while the first is provisioning
C10_Witness ==
  \E t \in Threads :
    /\ pc[t] = "prov"
    /\ Len(heap) = 1
    /\ creatingSnapshots = [v \in {heap[local[t]].id} |-> local[t]]
    /\ Returned("InitSnapshot") /\ ret.err = "DuplicateCreation"
    /\ ret.thread # t

\* C11: when CreateSnapDir fails, InitSnapshot returns ProvisioningFailed and
\* no snapshot and touches no collection, so the snapshot stays where it is
\* registered; while it is registered under v with failed provisioning,
\* InitSnapshot(v, _) returns DuplicateCreation and CommitSnapshot(v) succeeds
\* and appends it to the pool of its image.
C11_ProvisioningFailed ==
  [][/\ \A t \in Threads :
          (pc[t] = "prov" /\ pc'[t] # "prov" /\ snapDirs'[local[t]] = "failed") =>
            /\ ret'.thread = t /\ ret'.op = "InitSnapshot"
            /\ ret'.err = "ProvisioningFailed" /\ ret'.snap = Nil
            /\ UNCHANGED mgrVars
     /\ HolderStep("InitSnapshot") =>
          \A v \in DOMAIN creatingSnapshots, i \in Images :
            (snapDirs[creatingSnapshots[v]] = "failed" /\ InitSnapshot(lock, v, i)) =>
              /\ ret'.err = "DuplicateCreation"
              /\ creatingSnapshots' = creatingSnapshots
     /\ HolderStep("CommitSnapshot") =>
          \A v \in DOMAIN creatingSnapshots :
            (snapDirs[creatingSnapshots[v]] = "failed" /\ CommitSnapshot(lock, v)) =>
              LET s == creatingSnapshots[v]
                  img == heap[s].image IN
                /\ ret'.err = "nil"
                /\ v \notin DOMAIN creatingSnapshots'
                /\ img \in DOMAIN idleSnapshots'
                /\ idleSnapshots'[img] = Append(MapGetSlice(idleSnapshots, img), s)]_vars

\* the only snapshot was committed after its provisioning had failed
C11_Witness ==
  /\ Len(heap) = 1
  /\ snapDirs[1] = "failed"
  /\ Returned("CommitSnapshot") /\ ret.err = "nil"
  /\ IsIdle(1)

\* C12: an InitSnapshot call whose directory provisioning fails leaves no
\* partial pool state behind: when it returns ProvisioningFailed, the snapshot
\* it constructed is held by none of creatingSnapshots, activeSnapshots and
\* idleSnapshots, as before the call.
C12_NoPartialState ==
  [][\A t \in Threads :
       (pc[t] = "prov" /\ pc'[t] # "prov" /\ ret'.err = "ProvisioningFailed") =>
         /\ local[t] \notin Range(creatingSnapshots')
         /\ local[t] \notin Range(activeSnapshots')
         /\ \A i \in DOMAIN idleSnapshots' :
              \A k \in 1..Len(idleSnapshots'[i]) : idleSnapshots'[i][k] # local[t]]_vars

\* C13: a successful AcquireSnapshot(i) puts the returned snapshot s of image i
\* in activeSnapshots under s.id; ReleaseSnapshot(s.id) issued next succeeds,
\* removes that key and appends s to the tail of the pool of image i; after a
\* successful ReleaseSnapshot some pool is non-empty, and AcquireSnapshot on a
\* non-empty pool succeeds and returns its first snapshot (s itself when the
\* pool held no other), of the image asked for.
C13_RoundTrip ==
  /\ []((Returned("ReleaseSnapshot") /\ ret.err = "nil") =>
          \E i \in DOMAIN idleSnapshots : idleSnapshots[i] # <<>>)
  /\ [][/\ (HolderStep("AcquireSnapshot") /\ ret'.snap # Nil) =>
             LET s == ret'.snap IN
               /\ heap[s].id \in DOMAIN activeSnapshots'
               /\ activeSnapshots'[heap[s].id] = s
               /\ \A i \in Images : AcquireSnapshot(lock, i) => heap[s].image = i
        /\ (Returned("AcquireSnapshot") /\ ret.snap # Nil /\ HolderStep("ReleaseSnapshot")) =>
             LET s == ret.snap
                 img == heap[s].image IN
               ReleaseSnapshot(lock, heap[s].id) =>
                 /\ ret'.err = "nil"
                 /\ heap[s].id \notin DOMAIN activeSnapshots'
                 /\ img \in DOMAIN idleSnapshots'
                 /\ idleSnapshots'[img] = Append(MapGetSlice(idleSnapshots, img), s)
                 /\ (MapGetSlice(idleSnapshots, img) = <<>> => idleSnapshots'[img] = <<s>>)
        /\ HolderStep("AcquireSnapshot") =>
             \A i \in DOMAIN idleSnapshots :
               (idleSnapshots[i] # <<>> /\ AcquireSnapshot(lock, i)) =>
                 /\ ret'.err = "nil"
                 /\ ret'.snap = idleSnapshots[i][1]
                 /\ heap[ret'.snap].image = i]_vars

\* a snapshot that had been handed out was released to the tail of a pool in
\* which another snapshot waits
C13_Witness ==
  /\ Returned("ReleaseSnapshot") /\ ret.err = "nil"
  /\ checkedOut = {} /\ activeSnapshots = EmptyMap
  /\ \E i \in DOMAIN idleSnapshots : Len(idleSnapshots[i]) = 2

\* C14: at most one caller is inside a locked part, and it is the holder of
\* the mutex; the collections are read and changed only by a step of the
\* holder; and a caller provisioning a directory does not hold the mutex, its
\* provisioning step leaving mutex and collections alone.
C14_MutualExclusion ==
  /\ [](Cardinality({t \in Threads : pc[t] = "crit"}) <= 1)
  /\ [](\A t \in Threads : /\ pc[t] = "crit" => lock = t
                           /\ pc[t] = "prov" => lock # t)
  /\ [][/\ \A t \in Threads : (pc[t] = "crit" /\ pc'[t] # "crit") => lock = t
        /\ mgrVars' # mgrVars =>
             /\ lock # NoLock /\ pc[lock] = "crit" /\ pc'[lock] # "crit"
             /\ \A u \in Threads \ {lock} : pc'[u] = pc[u]
        /\ provCalls' # provCalls /\ Len(provCalls') = Len(provCalls) =>
             \E t \in Threads :
               /\ pc[t] = "prov" /\ pc'[t] = "idle"
               /\ lock # t /\ lock' = lock
               /\ mgrVars' = mgrVars]_vars

\* one caller provisions while the other one is inside a locked part
C14_Witness ==
  \E t, u \in Threads :
    /\ pc[t] = "prov" /\ pc[u] = "crit" /\ lock = u
    /\ creatingSnapshots # EmptyMap

\* The locked part of whichever operation t is in.
LockedPart(t) ==
  \/ \E image \in Images : AcquireSnapshot(t, image)
  \/ \E vmID \in VMIDs : ReleaseSnapshot(t, vmID)
  \/ \E vmID \in VMIDs, image \in Images : InitSnapshot(t, vmID, image)
  \/ \E vmID \in VMIDs : CommitSnapshot(t, vmID)

\* The scheduler runs every goroutine that can run: a caller holding the
\* mutex executes its locked part, and a started CreateSnapDir returns.
FairSpec ==
  Spec /\ \A t \in Threads : WF_vars(LockedPart(t)) /\ WF_vars(CreateSnapDir(t))

\* C15: every exit of a locked part releases the mutex and no returned caller
\* holds it; the holder can always run AcquireSnapshot to its return, whatever
\* the pool holds; and under fair scheduling every caller that took the mutex
\* returns and the mutex becomes free again.
C15_NoDeadlock ==
  /\ [][\A t \in Threads : (pc[t] = "crit" /\ pc'[t] # "crit") => lock' = NoLock]_vars
  /\ [](\A t \in Threads : pc[t] = "idle" => lock # t)
  /\ [](\A t \in Threads : InCrit(t) =>
          \A i \in Images : ENABLED AcquireSnapshot(t, i))
  /\ \A t \in Threads : (pc[t] # "idle") ~> (pc[t] = "idle")
  /\ (lock # NoLock) ~> (lock = NoLock)

\* AcquireSnapshot returned from an empty pool while a creation is in flight
\* and no snapshot has been committed
C15_Witness ==
  /\ Returned("AcquireSnapshot") /\ ret.err = "NoSnapshotAvailable"
  /\ lock = NoLock
  /\ \E t \in Threads : pc[t] = "prov"
  /\ creatingSnapshots # EmptyMap
  /\ \A i \in DOMAIN idleSnapshots : idleSnapshots[i] = <<>>

\* C16: no step removes a key of idleSnapshots; a first-miss AcquireSnapshot, a
\* successful CommitSnapshot and a successful ReleaseSnapshot leave the key of
\* their image present; and an AcquireSnapshot that takes the last snapshot of
\* a pool leaves its key with the empty sequence.
C16_PoolKeysStay ==
  [][/\ DOMAIN idleSnapshots \subseteq DOMAIN idleSnapshots'
     /\ HolderStep("AcquireSnapshot") =>
          \A i \in Images :
            AcquireSnapshot(lock, i) =>
              /\ i \in DOMAIN idleSnapshots'
              /\ MapGetSlice(idleSnapshots, i) = <<>> => idleSnapshots'[i] = <<>>
              /\ Len(MapGetSlice(idleSnapshots, i)) = 1 => idleSnapshots'[i] = <<>>
     /\ ((HolderStep("CommitSnapshot") \/ HolderStep("ReleaseSnapshot")) /\ ret'.err = "nil") =>
          \E i \in DOMAIN idleSnapshots' : idleSnapshots'[i] # MapGetSlice(idleSnapshots, i)]_vars

\* the last idle snapshot of a pool was handed out and the pool is still a
\* key, empty, next to a pool that never held a snapshot
C16_Witness ==
  /\ Returned("AcquireSnapshot") /\ ret.snap # Nil
  /\ DOMAIN idleSnapshots = Images
  /\ \A i \in Images : idleSnapshots[i] = <<>>
  /\ Len(heap) = 1

\* C17: CreateSnapDir is invoked exactly once on every snapshot InitSnapshot
\* has registered, by the call that registered it and after the registration:
\* a snapshot not yet provisioned has exactly one caller provisioning it, one
\* provisioned has none; a new snapshot appears only registered, unprovisioned
\* and with its caller about to provision; and a locked part, of any
\* operation and also the one returning DuplicateCreation, invokes nothing.
C17_ProvisionOnce ==
  /\ [](\A s \in Objects :
          /\ provCalls[s] \in {0, 1}
          /\ Cardinality({t \in Threads : pc[t] = "prov" /\ local[t] = s})
               = 1 - provCalls[s])
  /\ [][/\ \A t \in Threads :
             (pc[t] = "prov" /\ pc'[t] # "prov") =>
               /\ local[t] \in Objects
               /\ provCalls'[local[t]] = provCalls[local[t]] + 1
               /\ \A s \in Objects \ {local[t]} : provCalls'[s] = provCalls[s]
        /\ (lock # NoLock /\ pc[lock] = "crit" /\ pc'[lock] # "crit") =>
             /\ \A s \in Objects : provCalls'[s] = provCalls[s]
             /\ pc'[lock] = "idle" => provCalls' = provCalls /\ heap' = heap
             /\ pc'[lock] = "prov" =>
                  LET s == local'[lock] IN
                    /\ Len(heap') = Len(heap) + 1 /\ s = Len(heap')
                    /\ provCalls'[s] = 0
                    /\ heap'[s].id \in DOMAIN creatingSnapshots'
                    /\ creatingSnapshots'[heap'[s].id] = s
        /\ Len(heap') # Len(heap) => HolderStep("InitSnapshot") /\ pc'[lock] = "prov"]_vars

\* one call has provisioned its snapshot and returned it, a later call failed
\* with DuplicateCreation, and another call is about to provision
C17_Witness ==
  /\ Len(heap) = 2
  /\ provCalls = <<1, 0>> /\ snapDirs[1] = "ok"
  /\ Returned("InitSnapshot") /\ ret.err = "DuplicateCreation"
  /\ \E t \in Threads : pc[t] = "prov" /\ local[t] = 2

\* The snapshots held by the three collections.
Held ==
  Range(creatingSnapshots) \cup Range(activeSnapshots)
    \cup UNION {Range(idleSnapshots[i]) : i \in DOMAIN idleSnapshots}

\* C18: no two distinct snapshots held by creatingSnapshots, activeSnapshots
\* and the idle pools have the same id.
C18_UniqueIds ==
  \A s1, s2 \in Held : s1 # s2 => heap[s1].id # heap[s2].id

\* C19: a snapshot is in an idle pool, or handed out by AcquireSnapshot, only
\* if its directory provisioning has completed successfully.
C19_ReadyBeforeReuse ==
  \A s \in Objects :
    (IsIdle(s) \/ s \in Range(activeSnapshots) \/ s \in checkedOut) =>
      /\ snapDirs[s] = "ok"
      /\ \A t \in Threads : ~(pc[t] = "prov" /\ local[t] = s)

\* C20: AcquireSnapshot(i) leaves creatingSnapshots and every pool but that
\* of i unchanged; CommitSnapshot(v) leaves activeSnapshots, every other
\* entry of creatingSnapshots and every pool but that of the committed
\* snapshot's image unchanged; ReleaseSnapshot(v) leaves creatingSnapshots,
\* every other entry of activeSnapshots and every pool but that of the
\* released snapshot's image unchanged; a registering InitSnapshot(v, i) adds
\* creatingSnapshots[v] only; and no step changes the id, image or path of an
\* existing snapshot.
C20_Frame ==
  [][/\ \A s \in Objects : heap'[s] = heap[s]
     /\ HolderStep("AcquireSnapshot") =>
          \A i \in Images :
            AcquireSnapshot(lock, i) =>
              /\ creatingSnapshots' = creatingSnapshots
              /\ \A j \in Images \ {i} :
                   /\ j \in DOMAIN idleSnapshots' <=> j \in DOMAIN idleSnapshots
                   /\ MapGetSlice(idleSnapshots', j) = MapGetSlice(idleSnapshots, j)
     /\ HolderStep("CommitSnapshot") =>
          \A v \in VMIDs :
            CommitSnapshot(lock, v) =>
              /\ activeSnapshots' = activeSnapshots
              /\ \A w \in VMIDs \ {v} : MapGet(creatingSnapshots', w) = MapGet(creatingSnapshots, w)
              /\ \A j \in Images :
                   (v \in DOMAIN creatingSnapshots => j # heap[creatingSnapshots[v]].image) =>
                     /\ j \in DOMAIN idleSnapshots' <=> j \in DOMAIN idleSnapshots
                     /\ MapGetSlice(idleSnapshots', j) = MapGetSlice(idleSnapshots, j)
     /\ HolderStep("ReleaseSnapshot") =>
          \A v \in VMIDs :
            ReleaseSnapshot(lock, v) =>
              /\ creatingSnapshots' = creatingSnapshots
              /\ \A w \in VMIDs \ {v} : MapGet(activeSnapshots', w) = MapGet(activeSnapshots, w)
              /\ \A j \in Images :
                   (v \in DOMAIN activeSnapshots => j # heap[activeSnapshots[v]].image) =>
                     /\ j \in DOMAIN idleSnapshots' <=> j \in DOMAIN idleSnapshots
                     /\ MapGetSlice(idleSnapshots', j) = MapGetSlice(idleSnapshots, j)
     /\ (HolderStep("InitSnapshot") /\ pc'[lock] = "prov") =>
          \A v \in VMIDs, i \in Images :
            InitSnapshot(lock, v, i) =>
              /\ activeSnapshots' = activeSnapshots
              /\ idleSnapshots' = idleSnapshots
              /\ DOMAIN creatingSnapshots' = DOMAIN creatingSnapshots \cup {v}
              /\ \A w \in VMIDs \ {v} : MapGet(creatingSnapshots', w) = MapGet(creatingSnapshots, w)]_vars

\* a snapshot was committed while another one is being created, a third
\* place, the pool of the other image, being a key already
C20_Witness ==
  /\ Returned("CommitSnapshot") /\ ret.err = "nil"
  /\ creatingSnapshots # EmptyMap
  /\ DOMAIN idleSnapshots = Images
  /\ \E i \in Images : idleSnapshots[i] = <<>>
  /\ \E i \in Images : idleSnapshots[i] # <<>>

\* ---------------------------------------------------------- type sanity
TypeOK ==
  /\ Len(heap) <= MaxSnapshots
  /\ Len(snapDirs) = Len(heap) /\ Len(provCalls) = Len(heap)
  /\ DOMAIN activeSnapshots \subseteq VMIDs
  /\ DOMAIN creatingSnapshots \subseteq VMIDs
  /\ DOMAIN idleSnapshots \subseteq Images
  /\ \A v \in DOMAIN activeSnapshots : activeSnapshots[v] \in Objects
  /\ \A v \in DOMAIN creatingSnapshots : creatingSnapshots[v] \in Objects
  /\ lock \in Threads \cup {NoLock}
====
